---- MODULE Spec2Model ----
(***************************************************************************)
(* StaticPartitionedTableAnalysisJob of                                    *)
(* pkg/statistics/handle/autoanalyze/priorityqueue: one job instance, its  *)
(* fields, and the operations a priority queue calls on it.  Analyze is    *)
(* modelled step by step (session borrow, dispatch, one step per executed  *)
(* statement, session release, deferred hook); the executor, the session   *)
(* pool and the validity predicate are external and answer                 *)
(* nondeterministically.                                                   *)
(***************************************************************************)
EXTENDS Integers, Sequences, FiniteSets, TLC

\* Bound on the number of Analyze, IsValidToAnalyze and GenSQL... calls made
\* on the job.
MaxCalls == 2

\* ------------------------------------------------------------------ inputs
Nil == "nil"

\* Index names of one table are unique, so an index list never repeats a name.
\* One list of every length up to three, none but the shortest in name order.
IndexNames == {"i1", "i2", "i3"}
IndexLists ==
    { <<>>, <<"i1">>, <<"i2", "i1">>, <<"i3", "i1", "i2">> }

PartitionNames == {"", "p"}
StatsVersions == {1, 2}
SessionVersions == {1, 2}
TableIDs == {1}
PartitionIDs == {1, 2}
Weights == {0, 1}
IndicatorValues ==
    {[ChangePercentage |-> 1, TableSize |-> 1, LastAnalysisDuration |-> 1],
     [ChangePercentage |-> 2, TableSize |-> 2, LastAnalysisDuration |-> 2]}
InitialIndicators ==
    {[ChangePercentage |-> 1, TableSize |-> 1, LastAnalysisDuration |-> 1]}
HookIds == {"h1", "h2"}
Reasons == {"r1", "r2"}

\* ------------------------------------------------------------- definitions
analyzeStaticPartition == "analyzeStaticPartition"
analyzeStaticPartitionIndex == "analyzeStaticPartitionIndex"

NewStaticPartitionTableAnalysisJob(schema, globalTableName, globalTableID, partitionName, partitionID, indexes, tableStatsVer, indicators) ==
    [ successHook         |-> Nil,
      failureHook         |-> Nil,
      TableSchema         |-> schema,
      GlobalTableName     |-> globalTableName,
      StaticPartitionName |-> partitionName,
      Indexes             |-> indexes,
      Indicators          |-> indicators,
      GlobalTableID       |-> globalTableID,
      StaticPartitionID   |-> partitionID,
      TableStatsVer       |-> tableStatsVer,
      Weight              |-> 0 ]

GetTableID_Global(j) == j.GlobalTableID

GetTableID(j) == j.StaticPartitionID

GetIndicators(j) == j.Indicators

GetWeight(j) == j.Weight

HasNewlyAddedIndex_MoreThanOne(j) == Len(j.Indexes) > 1

HasNewlyAddedIndex(j) == Len(j.Indexes) > 0

\* A classification that selects the index type whatever the list holds.
getAnalyzeType_AlwaysIndex(j) == analyzeStaticPartitionIndex

getAnalyzeType(j) ==
    IF HasNewlyAddedIndex(j) THEN analyzeStaticPartitionIndex
                             ELSE analyzeStaticPartition

GenSQLForAnalyzeStaticPartition_Swapped(j) ==
    [ sql    |-> "analyze table %n.%n partition %n",
      params |-> <<j.GlobalTableName, j.TableSchema, j.StaticPartitionName>> ]

GenSQLForAnalyzeStaticPartition(j) ==
    [ sql    |-> "analyze table %n.%n partition %n",
      params |-> <<j.TableSchema, j.GlobalTableName, j.StaticPartitionName>> ]

GenSQLForAnalyzeStaticPartitionIndex_IndexFirst(j, index) ==
    [ sql    |-> "analyze table %n.%n partition %n index %n",
      params |-> <<index, j.TableSchema, j.GlobalTableName, j.StaticPartitionName>> ]

GenSQLForAnalyzeStaticPartitionIndex(j, index) ==
    [ sql    |-> "analyze table %n.%n partition %n index %n",
      params |-> <<j.TableSchema, j.GlobalTableName, j.StaticPartitionName, index>> ]

\* ------------------------------------------------------------------ events
\* What one call does to the outside world, in order.
NoEvent ==
    [ ev |-> "none", sql |-> "", params |-> <<>>, ver |-> 0, ok |-> FALSE,
      kind |-> "", hook |-> Nil, held |-> FALSE, reason |-> "" ]

\* exec.AutoAnalyze(sctx, statsHandle, sysProcTracker, statsVer, sql, params...)
\* answering ok.
AutoAnalyze(s, statsVer, stmt, ok) ==
    [ NoEvent EXCEPT !.ev = "stmt", !.sql = stmt.sql, !.params = stmt.params,
                     !.ver = statsVer, !.ok = ok, !.held = s.held ]

\* j.successHook(j) / j.failureHook(j)
CallHook(kind, hook, s) ==
    [ NoEvent EXCEPT !.ev = "hook", !.kind = kind, !.hook = hook, !.held = s.held ]

\* isValidToAnalyze(sctx, schema, table, partitionNames...) answering
\* (valid, failReason).
CallIsValidToAnalyze(schema, table, partitionNames, valid, failReason) ==
    [ NoEvent EXCEPT !.ev = "isValidToAnalyze",
                     !.params = <<schema, table, partitionNames>>,
                     !.ok = valid, !.reason = failReason ]

\* The (sql, params) pair a SQL-generation function hands to its caller.
SQLReturned(stmt) ==
    [ NoEvent EXCEPT !.ev = "sql", !.sql = stmt.sql, !.params = stmt.params ]

PoolEvent(what) == [ NoEvent EXCEPT !.ev = what ]

NoSession == [ held |-> FALSE, AnalyzeVersion |-> 0 ]

\* ------------------------------------------------------------------- state
VARIABLES
    job,             \* the fields of the StaticPartitionedTableAnalysisJob
    ctor,            \* the arguments the job was constructed with
    lastSet,         \* the weight, indicators and hooks last given to the job
    pc,              \* position of the one thread that drives the job
    success,         \* Analyze's local `success`
    ret,             \* what Analyze returns: "nil" or "err" ("none" before)
    sctx,            \* the session borrowed from the pool
    analyzeVersion,  \* analyzeStaticPartitionIndexes' local (0: not read)
    idx,             \* position of the version-1 range loop
    trace,           \* events of the call in progress / last completed
    lastOp,          \* "none" or the method last called
    validRet,        \* what the last IsValidToAnalyze returned
    tally,           \* per-job counts of outcomes and hook invocations
    calls            \* number of such calls so far

vars == <<job, ctor, lastSet, pc, success, ret, sctx, analyzeVersion, idx, trace,
          lastOp, validRet, tally, calls>>

callVars == <<success, ret, sctx, analyzeVersion, idx>>

NoTally ==
    [ successHook |-> 0, failureHook |-> 0, analyzeOK |-> 0, analyzeFailed |-> 0,
      validTrue |-> 0, validFalse |-> 0 ]

Init ==
    /\ \E partitionName \in PartitionNames, indexes \in IndexLists,
          tableStatsVer \in StatsVersions, globalTableID \in TableIDs,
          partitionID \in PartitionIDs, indicators \in InitialIndicators :
          /\ ctor = [ schema |-> "s", globalTableName |-> "t",
                      globalTableID |-> globalTableID,
                      partitionName |-> partitionName,
                      partitionID |-> partitionID, indexes |-> indexes,
                      tableStatsVer |-> tableStatsVer,
                      indicators |-> indicators ]
          /\ job = NewStaticPartitionTableAnalysisJob(
                       "s", "t", globalTableID, partitionName, partitionID,
                       indexes, tableStatsVer, indicators)
    /\ lastSet = [ Weight |-> 0, Indicators |-> ctor.indicators,
                   successHook |-> Nil, failureHook |-> Nil ]
    /\ pc = "idle"
    /\ success = TRUE
    /\ ret = "none"
    /\ sctx = NoSession
    /\ analyzeVersion = 0
    /\ idx = 0
    /\ trace = <<>>
    /\ lastOp = "none"
    /\ validRet = <<TRUE, "">>
    /\ tally = NoTally
    /\ calls = 0

\* ----------------------------------------------------------------- setters
\* A registration that keeps a hook already registered.
RegisterSuccessHook_KeepsFirst ==
    /\ pc = "idle"
    /\ \E hook \in HookIds :
          /\ job' = [job EXCEPT !.successHook = IF @ = Nil THEN hook ELSE @]
          /\ lastSet' = [lastSet EXCEPT !.successHook = hook]
    /\ UNCHANGED <<ctor, pc, callVars, trace, lastOp, validRet, tally, calls>>

RegisterSuccessHook ==
    /\ pc = "idle"
    /\ \E hook \in HookIds :
          /\ job' = [job EXCEPT !.successHook = hook]
          /\ lastSet' = [lastSet EXCEPT !.successHook = hook]
    /\ UNCHANGED <<ctor, pc, callVars, trace, lastOp, validRet, tally, calls>>

RegisterFailureHook ==
    /\ pc = "idle"
    /\ \E hook \in HookIds :
          /\ job' = [job EXCEPT !.failureHook = hook]
          /\ lastSet' = [lastSet EXCEPT !.failureHook = hook]
    /\ UNCHANGED <<ctor, pc, callVars, trace, lastOp, validRet, tally, calls>>

SetIndicators ==
    /\ pc = "idle"
    /\ \E indicators \in IndicatorValues :
          /\ job' = [job EXCEPT !.Indicators = indicators]
          /\ lastSet' = [lastSet EXCEPT !.Indicators = indicators]
    /\ UNCHANGED <<ctor, pc, callVars, trace, lastOp, validRet, tally, calls>>

\* A setter that adds the new weight to the old one.
SetWeight_Accumulates ==
    /\ pc = "idle"
    /\ \E weight \in Weights :
          /\ job' = [job EXCEPT !.Weight = (@ + weight) % 2]
          /\ lastSet' = [lastSet EXCEPT !.Weight = weight]
    /\ UNCHANGED <<ctor, pc, callVars, trace, lastOp, validRet, tally, calls>>

SetWeight ==
    /\ pc = "idle"
    /\ \E weight \in Weights :
          /\ job' = [job EXCEPT !.Weight = weight]
          /\ lastSet' = [lastSet EXCEPT !.Weight = weight]
    /\ UNCHANGED <<ctor, pc, callVars, trace, lastOp, validRet, tally, calls>>

\* ----------------------------------------------------------------- Analyze
\* The deferred function of Analyze: the hook the final value of `success`
\* selects, invoked when it is registered.
DeferredHook_Both(j, succ, s) ==
    (IF j.successHook # Nil THEN <<CallHook("success", j.successHook, s)>> ELSE <<>>)
    \o (IF j.failureHook # Nil THEN <<CallHook("failure", j.failureHook, s)>> ELSE <<>>)

DeferredHook_Inverted(j, succ, s) ==
    IF ~succ
    THEN IF j.successHook # Nil
         THEN <<CallHook("success", j.successHook, s)>> ELSE <<>>
    ELSE IF j.failureHook # Nil
         THEN <<CallHook("failure", j.failureHook, s)>> ELSE <<>>

DeferredHook(j, succ, s) ==
    IF succ
    THEN IF j.successHook # Nil
         THEN <<CallHook("success", j.successHook, s)>> ELSE <<>>
    ELSE IF j.failureHook # Nil
         THEN <<CallHook("failure", j.failureHook, s)>> ELSE <<>>

CountHooks(events, kind) ==
    Len(SelectSeq(events, LAMBDA e : e.ev = "hook" /\ e.kind = kind))

\* Entry of Analyze: success := true, the deferred function is set up, and
\* the closure is handed to CallWithSCtx.
Analyze ==
    /\ pc = "idle"
    /\ calls < MaxCalls
    /\ calls' = calls + 1
    /\ lastOp' = "Analyze"
    /\ success' = TRUE
    /\ ret' = "none"
    /\ analyzeVersion' = 0
    /\ idx' = 0
    /\ trace' = <<>>
    /\ pc' = "CallWithSCtx"
    /\ UNCHANGED <<job, ctor, lastSet, sctx, validRet, tally>>

\* statsutil.CallWithSCtx borrows a session from the pool and runs the
\* closure with it.
CallWithSCtxGet ==
    /\ pc = "CallWithSCtx"
    /\ \E v \in SessionVersions : sctx' = [held |-> TRUE, AnalyzeVersion |-> v]
    /\ trace' = Append(trace, PoolEvent("get"))
    /\ pc' = "dispatch"
    /\ UNCHANGED <<job, ctor, lastSet, success, ret, analyzeVersion, idx, lastOp, validRet, tally, calls>>

\* The pool has no session to give: CallWithSCtx returns the pool's error
\* and never runs the closure.
CallWithSCtxGetFails ==
    /\ pc = "CallWithSCtx"
    /\ trace' = Append(trace, PoolEvent("getFailed"))
    /\ ret' = "err"
    /\ pc' = "defer"
    /\ UNCHANGED <<job, ctor, lastSet, success, sctx, analyzeVersion, idx, lastOp, validRet, tally, calls>>

\* A closure that reports the outcome itself, with the session still held.
j_analyzeStaticPartition_HookInClosure ==
    /\ pc = "dispatch"
    /\ getAnalyzeType(job) = analyzeStaticPartition
    /\ \E ok \in BOOLEAN :
          /\ trace' = Append(trace, AutoAnalyze(sctx, job.TableStatsVer, GenSQLForAnalyzeStaticPartition(job), ok)) \o DeferredHook(job, ok, sctx)
          /\ success' = ok
    /\ pc' = "closureReturn"
    /\ UNCHANGED <<job, ctor, lastSet, ret, sctx, analyzeVersion, idx, lastOp, validRet, tally, calls>>

\* case analyzeStaticPartition: one whole-partition statement.
j_analyzeStaticPartition ==
    /\ pc = "dispatch"
    /\ getAnalyzeType(job) = analyzeStaticPartition
    /\ \E ok \in BOOLEAN :
          /\ trace' = Append(trace, AutoAnalyze(sctx, job.TableStatsVer, GenSQLForAnalyzeStaticPartition(job), ok))
          /\ success' = ok
    /\ pc' = "closureReturn"
    /\ UNCHANGED <<job, ctor, lastSet, ret, sctx, analyzeVersion, idx, lastOp, validRet, tally, calls>>

\* The index whose statement stands for all of them under version >= 2.
firstIndex_Last(j) == j.Indexes[Len(j.Indexes)]

firstIndex(j) == j.Indexes[1]

\* analyzeStaticPartitionIndexes up to the version-1 loop, on job j with
\* session s and executor answer ok: the guard on an empty list, the read of
\* the session's AnalyzeVersion, and for a version other than 1 the single
\* statement for the first index.
analyzeStaticPartitionIndexes(j, s, ok) ==
    IF Len(j.Indexes) = 0
    THEN [ success |-> TRUE, pc |-> "closureReturn", events |-> <<>>,
           analyzeVersion |-> analyzeVersion, idx |-> idx ]
    ELSE IF s.AnalyzeVersion = 1
         THEN [ success |-> success, pc |-> "range", events |-> <<>>,
                analyzeVersion |-> s.AnalyzeVersion, idx |-> 1 ]
         ELSE [ success |-> ok, pc |-> "closureReturn",
                events |-> <<AutoAnalyze(s, j.TableStatsVer, GenSQLForAnalyzeStaticPartitionIndex(j, firstIndex(j)), ok)>>,
                analyzeVersion |-> s.AnalyzeVersion, idx |-> idx ]

\* case analyzeStaticPartitionIndex.
j_analyzeStaticPartitionIndexes ==
    /\ pc = "dispatch"
    /\ getAnalyzeType(job) = analyzeStaticPartitionIndex
    /\ \E ok \in BOOLEAN :
          LET r == analyzeStaticPartitionIndexes(job, sctx, ok) IN
             /\ success' = r.success
             /\ pc' = r.pc
             /\ trace' = trace \o r.events
             /\ analyzeVersion' = r.analyzeVersion
             /\ idx' = r.idx
    /\ UNCHANGED <<job, ctor, lastSet, ret, sctx, lastOp, validRet, tally, calls>>

\* A loop that goes on to the next index after a failed statement.
j_rangeIndexes_NoShortCircuit ==
    /\ pc = "range"
    /\ IF idx > Len(job.Indexes)
       THEN /\ success' = \A k \in 1..Len(trace) : trace[k].ev = "stmt" => trace[k].ok
            /\ pc' = "closureReturn"
            /\ UNCHANGED <<idx, trace>>
       ELSE /\ \E ok \in BOOLEAN :
                  trace' = Append(trace, AutoAnalyze(sctx, job.TableStatsVer, GenSQLForAnalyzeStaticPartitionIndex(job, job.Indexes[idx]), ok))
            /\ idx' = idx + 1
            /\ UNCHANGED <<success, pc>>
    /\ UNCHANGED <<job, ctor, lastSet, ret, sctx, analyzeVersion, lastOp, validRet, tally, calls>>

\* A loop that reports success whatever its statements answered.
j_rangeIndexes_PartialCredit ==
    /\ pc = "range"
    /\ IF idx > Len(job.Indexes)
       THEN /\ success' = TRUE
            /\ pc' = "closureReturn"
            /\ UNCHANGED <<idx, trace>>
       ELSE /\ \E ok \in BOOLEAN :
                  /\ trace' = Append(trace, AutoAnalyze(sctx, job.TableStatsVer, GenSQLForAnalyzeStaticPartitionIndex(job, job.Indexes[idx]), ok))
                  /\ IF ok
                     THEN idx' = idx + 1 /\ UNCHANGED <<success, pc>>
                     ELSE success' = TRUE /\ pc' = "closureReturn" /\ UNCHANGED idx
    /\ UNCHANGED <<job, ctor, lastSet, ret, sctx, analyzeVersion, lastOp, validRet, tally, calls>>

\* One turn of `for _, index := range j.Indexes` under version 1: the
\* statement for the next index, return false when it fails, return true
\* when the list is exhausted.
j_rangeIndexes ==
    /\ pc = "range"
    /\ IF idx > Len(job.Indexes)
       THEN /\ success' = TRUE
            /\ pc' = "closureReturn"
            /\ UNCHANGED <<idx, trace>>
       ELSE /\ \E ok \in BOOLEAN :
                  /\ trace' = Append(trace, AutoAnalyze(sctx, job.TableStatsVer, GenSQLForAnalyzeStaticPartitionIndex(job, job.Indexes[idx]), ok))
                  /\ IF ok
                     THEN idx' = idx + 1 /\ UNCHANGED <<success, pc>>
                     ELSE success' = FALSE /\ pc' = "closureReturn" /\ UNCHANGED idx
    /\ UNCHANGED <<job, ctor, lastSet, ret, sctx, analyzeVersion, lastOp, validRet, tally, calls>>

\* The closure returns nil; CallWithSCtx gives the session back to the pool
\* and returns the closure's nil.
CallWithSCtxPut ==
    /\ pc = "closureReturn"
    /\ sctx' = NoSession
    /\ trace' = Append(trace, PoolEvent("put"))
    /\ ret' = "nil"
    /\ pc' = "defer"
    /\ UNCHANGED <<job, ctor, lastSet, success, analyzeVersion, idx, lastOp, validRet, tally, calls>>

\* The deferred function runs, then Analyze returns `ret`.
AnalyzeDefer ==
    /\ pc = "defer"
    /\ LET fired == DeferredHook(job, success, sctx) IN
          /\ trace' = trace \o fired
          /\ tally' = [tally EXCEPT
                          !.successHook = @ + CountHooks(fired, "success"),
                          !.failureHook = @ + CountHooks(fired, "failure"),
                          !.analyzeOK = @ + (IF success THEN 1 ELSE 0),
                          !.analyzeFailed = @ + (IF success THEN 0 ELSE 1)]
    /\ pc' = "idle"
    /\ UNCHANGED <<job, ctor, lastSet, callVars, lastOp, validRet, calls>>

\* -------------------------------------------------------- IsValidToAnalyze
\* A body that loses the predicate's reason on the way out.
IsValidToAnalyzeBody_DropsReason(j, s, valid, failReason) ==
    IF j.StaticPartitionName # ""
    THEN LET asked == <<CallIsValidToAnalyze(j.TableSchema, j.GlobalTableName, <<j.StaticPartitionName>>, valid, failReason)>>
             fired == IF j.failureHook # Nil
                      THEN <<CallHook("failure", j.failureHook, s)>>
                      ELSE <<>>
         IN  IF ~valid
             THEN [ events |-> asked \o fired, ret |-> <<FALSE, "">> ]
             ELSE [ events |-> asked, ret |-> <<TRUE, "">> ]
    ELSE [ events |-> <<>>, ret |-> <<TRUE, "">> ]

\* A body that asks the predicate whatever the partition name is.
IsValidToAnalyzeBody_NoNameGuard(j, s, valid, failReason) ==
    LET asked == <<CallIsValidToAnalyze(j.TableSchema, j.GlobalTableName, <<j.StaticPartitionName>>, valid, failReason)>>
        fired == IF j.failureHook # Nil
                 THEN <<CallHook("failure", j.failureHook, s)>>
                 ELSE <<>>
    IN  IF ~valid
        THEN [ events |-> asked \o fired, ret |-> <<FALSE, failReason>> ]
        ELSE [ events |-> asked, ret |-> <<TRUE, "">> ]

\* The body of IsValidToAnalyze, given what the external predicate answers
\* when it is asked: the events of the call and the pair it returns.
IsValidToAnalyzeBody(j, s, valid, failReason) ==
    IF j.StaticPartitionName # ""
    THEN LET asked == <<CallIsValidToAnalyze(j.TableSchema, j.GlobalTableName, <<j.StaticPartitionName>>, valid, failReason)>>
             fired == IF j.failureHook # Nil
                      THEN <<CallHook("failure", j.failureHook, s)>>
                      ELSE <<>>
         IN  IF ~valid
             THEN [ events |-> asked \o fired, ret |-> <<FALSE, failReason>> ]
             ELSE [ events |-> asked, ret |-> <<TRUE, "">> ]
    ELSE [ events |-> <<>>, ret |-> <<TRUE, "">> ]

\* The external predicate answers (true, "") or (false, reason).
IsValidToAnalyze ==
    /\ pc = "idle"
    /\ calls < MaxCalls
    /\ calls' = calls + 1
    /\ lastOp' = "IsValidToAnalyze"
    /\ \E valid \in BOOLEAN : \E failReason \in (IF valid THEN {""} ELSE Reasons) :
          LET r == IsValidToAnalyzeBody(job, sctx, valid, failReason) IN
             /\ trace' = r.events
             /\ validRet' = r.ret
             /\ tally' = [tally EXCEPT
                             !.failureHook = @ + CountHooks(r.events, "failure"),
                             !.validTrue = @ + (IF r.ret[1] THEN 1 ELSE 0),
                             !.validFalse = @ + (IF r.ret[1] THEN 0 ELSE 1)]
    /\ UNCHANGED <<job, ctor, lastSet, pc, callVars>>

\* ----------------------------------------------------------- SQL generation
\* The two exported generators called on their own (for logging or tests).
GenSQLForAnalyzeStaticPartitionCall ==
    /\ pc = "idle"
    /\ calls < MaxCalls
    /\ calls' = calls + 1
    /\ lastOp' = "GenSQLForAnalyzeStaticPartition"
    /\ trace' = <<SQLReturned(GenSQLForAnalyzeStaticPartition(job))>>
    /\ UNCHANGED <<job, ctor, lastSet, pc, callVars, validRet, tally>>

GenSQLForAnalyzeStaticPartitionIndexCall ==
    /\ pc = "idle"
    /\ calls < MaxCalls
    /\ calls' = calls + 1
    /\ lastOp' = "GenSQLForAnalyzeStaticPartitionIndex"
    /\ \E index \in IndexNames :
          trace' = <<SQLReturned(GenSQLForAnalyzeStaticPartitionIndex(job, index))>>
    /\ UNCHANGED <<job, ctor, lastSet, pc, callVars, validRet, tally>>

\* ----------------------------------------------------------- specification
Next ==
    \/ RegisterSuccessHook
    \/ RegisterFailureHook
    \/ SetIndicators
    \/ SetWeight
    \/ IsValidToAnalyze
    \/ GenSQLForAnalyzeStaticPartitionCall
    \/ GenSQLForAnalyzeStaticPartitionIndexCall
    \/ Analyze
    \/ CallWithSCtxGet
    \/ CallWithSCtxGetFails
    \/ j_analyzeStaticPartition
    \/ j_analyzeStaticPartitionIndexes
    \/ j_rangeIndexes
    \/ CallWithSCtxPut
    \/ AnalyzeDefer

Spec == Init /\ [][Next]_vars

\* ------------------------------------------------------------ observations
Issued == SelectSeq(trace, LAMBDA e : e.ev = "stmt")

Fired == SelectSeq(trace, LAMBDA e : e.ev = "hook")

SuccessFired == CountHooks(trace, "success")

FailureFired == CountHooks(trace, "failure")

SessionAcquired == \E k \in 1..Len(trace) : trace[k].ev = "get"

AnalyzeDone == lastOp = "Analyze" /\ pc = "idle"

AllIssuedOK == \A k \in 1..Len(Issued) : Issued[k].ok

PartitionSQL == "analyze table %n.%n partition %n"

IndexSQL == "analyze table %n.%n partition %n index %n"

IsIndexStatement(e, index) ==
    /\ e.sql = IndexSQL
    /\ e.params = <<ctor.schema, ctor.globalTableName, ctor.partitionName, index>>

\* One statement per index, in list order, up to and including the first
\* that fails.
PerIndexIssued ==
    /\ Len(Issued) >= 1
    /\ Len(Issued) <= Len(job.Indexes)
    /\ \A k \in 1..Len(Issued) : IsIndexStatement(Issued[k], job.Indexes[k])
    /\ \A k \in 1..(Len(Issued) - 1) : Issued[k].ok
    /\ Len(Issued) = Len(job.Indexes) \/ ~Issued[Len(Issued)].ok

\* The statement for the first index and no other.
FirstOnlyIssued ==
    /\ Len(Issued) = 1
    /\ IsIndexStatement(Issued[1], job.Indexes[1])

\* ------------------------------------------------------------------ claims

\* C1 (as stated): once a call to Analyze has returned, the success hook and
\* the failure hook have together been invoked exactly once by that call,
\* whatever the job and whatever the session pool and the executor answered.
C1_ExactlyOneHookFires == AnalyzeDone => Len(Fired) = 1

\* C1 (amended): a call to Analyze invokes no hook before its deferred
\* function runs; the deferred function invokes the hook selected by the
\* outcome exactly once when that hook is registered and invokes nothing
\* when it is not, so the call's invocations total one or zero, never two.
C1_SelectedHookFiresOnceIfRegistered ==
    [][ lastOp' = "Analyze" =>
          IF pc = "defer"
          THEN /\ Fired = <<>>
               /\ Len(Fired') =
                     IF (IF success THEN job.successHook ELSE job.failureHook) # Nil
                     THEN 1 ELSE 0
          ELSE IF pc = "idle" /\ pc' # "idle"
               THEN Fired' = <<>>
               ELSE Fired' = Fired ]_vars

C1_Witness ==
    /\ AnalyzeDone
    /\ Len(Fired) = 1
    /\ Len(Issued) = 3

C3_SessionFailureFiresFailureHook ==
    [][ (lastOp = "Analyze" /\ pc = "defer" /\ ret = "err") =>
          /\ Issued' = <<>>
          /\ SuccessFired' = 0
          /\ FailureFired' = IF job.failureHook # Nil THEN 1 ELSE 0 ]_vars

\* C4: whatever the pool and the executor answered, a returned Analyze call
\* returned no error.
C4_AnalyzeReturnsNoError == AnalyzeDone => ret = "nil"

\* C5: an index-type call that got a session follows the job's own stats
\* version: with TableStatsVer 1 it issues one statement per index (up to the
\* first failure), with TableStatsVer >= 2 only the statement for the first
\* index, whatever AnalyzeVersion the borrowed session carries.
C5_PolicyFollowsJobStatsVersion ==
    (AnalyzeDone /\ SessionAcquired /\ Len(job.Indexes) > 0) =>
        IF job.TableStatsVer = 1 THEN PerIndexIssued ELSE FirstOnlyIssued

\* C6: under the version-1 index policy the statements issued so far are, at
\* every moment of the call, the statements for a prefix of the index list,
\* one per index in list order, every one but the last having succeeded and
\* no two for the same index; when the call has returned the prefix ends at
\* the first failed statement or is the whole list, and if every statement
\* succeeded there are exactly Len(Indexes) of them and the result is true.
C6_Version1IssuesPrefixInOrder ==
    (lastOp = "Analyze" /\ analyzeVersion = 1) =>
        /\ Len(Issued) <= Len(job.Indexes)
        /\ \A k \in 1..Len(Issued) : IsIndexStatement(Issued[k], job.Indexes[k])
        /\ \A k \in 1..Len(Issued) : Issued[k].ver = ctor.tableStatsVer
        /\ \A k \in 1..(Len(Issued) - 1) : Issued[k].ok
        /\ \A a, b \in 1..Len(Issued) : a # b => Issued[a].params # Issued[b].params
        /\ pc = "idle" =>
              /\ Len(Issued) >= 1
              /\ Len(Issued) = Len(job.Indexes) \/ ~Issued[Len(Issued)].ok
              /\ AllIssuedOK => (Len(Issued) = Len(job.Indexes) /\ success)

C6_Witness ==
    /\ AnalyzeDone
    /\ analyzeVersion = 1
    /\ job.Indexes = <<"i3", "i1", "i2">>
    /\ Len(Issued) = 2
    /\ Issued[1].ok
    /\ ~Issued[2].ok

\* C7 (as stated): under the version-1 index policy the result of a returned
\* call is true iff every index has a statement and every statement
\* succeeded; if a statement failed the result is false, the failure hook has
\* fired exactly once and the success hook has not; and if the statement for
\* the first index failed it is the only one issued.
C7_NoPartialCredit ==
    (AnalyzeDone /\ analyzeVersion = 1) =>
        /\ success <=> (AllIssuedOK /\ Len(Issued) = Len(job.Indexes))
        /\ ~AllIssuedOK => (~success /\ FailureFired = 1 /\ SuccessFired = 0)
        /\ ~Issued[1].ok => Len(Issued) = 1

\* C7 (amended): under the version-1 index policy, when the deferred function
\* has run the result is true iff every index has a statement and every
\* statement succeeded; if a statement failed the result is false, the
\* success hook has not fired and the failure hook has fired exactly once
\* when one is registered (not at all when none is); and if the statement for
\* the first index failed it is the only one issued.
C7_NoPartialCreditRegisteredHook ==
    [][ (lastOp = "Analyze" /\ analyzeVersion = 1 /\ pc = "defer") =>
          /\ success' <=> (AllIssuedOK' /\ Len(Issued') = Len(job.Indexes))
          /\ ~AllIssuedOK' =>
                /\ ~success'
                /\ SuccessFired' = 0
                /\ FailureFired' = IF job.failureHook # Nil THEN 1 ELSE 0
          /\ ~Issued'[1].ok => Len(Issued') = 1 ]_vars

C7_Witness ==
    /\ AnalyzeDone
    /\ analyzeVersion = 1
    /\ Len(job.Indexes) = 3
    /\ Len(Issued) = 1
    /\ ~Issued[1].ok
    /\ ~success
    /\ FailureFired = 1
    /\ SuccessFired = 0

\* C8: under the version >= 2 index policy exactly one statement is issued,
\* the partition-index statement for the first index of the list, executed
\* with the job's stats version; no later index of the list is a parameter of
\* an issued statement; the result equals that statement's result, and a hook
\* that fires is the one that result selects.
C8_Version2IssuesFirstIndexOnly ==
    (lastOp = "Analyze" /\ analyzeVersion >= 2) =>
        /\ Len(job.Indexes) >= 1
        /\ Len(Issued) = 1
        /\ IsIndexStatement(Issued[1], ctor.indexes[1])
        /\ Issued[1].ver = ctor.tableStatsVer
        /\ \A k \in 2..Len(job.Indexes) : \A n \in 1..Len(Issued) :
              \A i \in 1..Len(Issued[n].params) : Issued[n].params[i] # job.Indexes[k]
        /\ success = Issued[1].ok
        /\ \A n \in 1..Len(Fired) :
              Fired[n].kind = IF Issued[1].ok THEN "success" ELSE "failure"

C8_Witness ==
    /\ AnalyzeDone
    /\ analyzeVersion = 2
    /\ Len(job.Indexes) = 3
    /\ Len(Issued) = 1
    /\ Issued[1].ok
    /\ SuccessFired = 1

\* C9 (as stated): a returned Analyze call on a job with an empty index list
\* has issued exactly one statement, the whole-partition statement with
\* parameters [schema, table, partition], with the job's stats version.
C9_EmptyListIssuesPartitionStatement ==
    (AnalyzeDone /\ job.Indexes = <<>>) =>
        /\ Len(Issued) = 1
        /\ Issued[1].sql = PartitionSQL
        /\ Issued[1].params = <<ctor.schema, ctor.globalTableName, ctor.partitionName>>
        /\ Issued[1].ver = ctor.tableStatsVer

\* C9 (amended): an Analyze call on a job with an empty index list never
\* issues a partition-index statement; once it has returned it has issued
\* exactly one statement, the whole-partition statement with parameters
\* [schema, table, partition] and the job's stats version, if the pool gave a
\* session, and no statement at all if it did not.
C9_EmptyListIssuesPartitionStatementInSession ==
    (lastOp = "Analyze" /\ job.Indexes = <<>>) =>
        /\ \A k \in 1..Len(Issued) : Issued[k].sql # IndexSQL
        /\ pc = "idle" =>
              IF SessionAcquired
              THEN /\ Len(Issued) = 1
                   /\ Issued[1].sql = PartitionSQL
                   /\ Issued[1].params = <<ctor.schema, ctor.globalTableName, ctor.partitionName>>
                   /\ Issued[1].ver = ctor.tableStatsVer
              ELSE Issued = <<>>

C9_Witness ==
    /\ AnalyzeDone
    /\ job.Indexes = <<>>
    /\ SessionAcquired
    /\ Len(Issued) = 1
    /\ Issued[1].params = <<"s", "t", "p">>

\* C10: in every reachable state the id GetTableID reports is the partition
\* id the job was constructed with, and is not the logical table id when the
\* two differ.
C10_GetTableIDIsPartitionID ==
    /\ GetTableID(job) = ctor.partitionID
    /\ ctor.globalTableID # ctor.partitionID => GetTableID(job) # ctor.globalTableID

C10_Witness ==
    /\ pc = "idle"
    /\ ctor.globalTableID # ctor.partitionID
    /\ GetTableID(job) = 2
    /\ tally.analyzeOK + tally.analyzeFailed >= 1
    /\ tally.validTrue + tally.validFalse >= 1
    /\ job.Weight = 1
    /\ job.Indicators # ctor.indicators
    /\ job.successHook # Nil
    /\ job.failureHook # Nil

\* C11: in every reachable state the analyze type is the one the current
\* index list gives (empty: partition type, non-empty: index type) and agrees
\* with HasNewlyAddedIndex; it is the same function of the list whatever list
\* the job is given, and the same whatever weight, indicators, stats version
\* or hooks the job carries; and the branch an Analyze call dispatches to is
\* the branch of the list the job has at that call.
C11_AnalyzeTypeFollowsIndexList ==
    /\ getAnalyzeType(job) =
          IF job.Indexes = <<>> THEN analyzeStaticPartition
                                ELSE analyzeStaticPartitionIndex
    /\ (getAnalyzeType(job) = analyzeStaticPartitionIndex) <=> HasNewlyAddedIndex(job)
    /\ \A l \in IndexLists :
          getAnalyzeType([job EXCEPT !.Indexes = l]) =
             IF l = <<>> THEN analyzeStaticPartition ELSE analyzeStaticPartitionIndex
    /\ \A w \in Weights : getAnalyzeType([job EXCEPT !.Weight = w]) = getAnalyzeType(job)
    /\ \A i \in IndicatorValues :
          getAnalyzeType([job EXCEPT !.Indicators = i]) = getAnalyzeType(job)
    /\ \A v \in StatsVersions :
          getAnalyzeType([job EXCEPT !.TableStatsVer = v]) = getAnalyzeType(job)
    /\ \A h \in HookIds \cup {Nil} :
          /\ getAnalyzeType([job EXCEPT !.successHook = h]) = getAnalyzeType(job)
          /\ getAnalyzeType([job EXCEPT !.failureHook = h]) = getAnalyzeType(job)
    /\ (lastOp = "Analyze" /\ Len(Issued) >= 1) =>
          Issued[1].sql = IF job.Indexes = <<>> THEN PartitionSQL ELSE IndexSQL

C11_Witness ==
    /\ AnalyzeDone
    /\ calls = 2
    /\ tally.analyzeOK + tally.analyzeFailed = 2
    /\ Len(job.Indexes) = 1
    /\ getAnalyzeType(job) = analyzeStaticPartitionIndex
    /\ Len(Issued) = 1
    /\ Issued[1].sql = IndexSQL
    /\ job.Weight = 1
    /\ job.Indicators # ctor.indicators
    /\ job.successHook # Nil

\* ------------------------------------------------ IsValidToAnalyze, observed
Asked == SelectSeq(trace, LAMBDA e : e.ev = "isValidToAnalyze")

\* A step that is one whole IsValidToAnalyze call.
IsValidToAnalyzeStep == calls' = calls + 1 /\ lastOp' = "IsValidToAnalyze"

\* C12 (as stated): after an IsValidToAnalyze call on a job with a non-empty
\* partition name in which the predicate answered no, the failure hook has
\* fired exactly once, no statement has been issued and the success hook has
\* not fired, the call has returned (false, the predicate's reason), and the
\* predicate was asked once, with schema, logical table name and the list
\* holding the partition name.
C12_InvalidFiresFailureHookOnce ==
    (lastOp = "IsValidToAnalyze" /\ job.StaticPartitionName # ""
        /\ Len(Asked) >= 1 /\ ~Asked[1].ok) =>
        /\ FailureFired = 1
        /\ SuccessFired = 0
        /\ Issued = <<>>
        /\ Len(Asked) = 1
        /\ Asked[1].params = <<ctor.schema, ctor.globalTableName, <<ctor.partitionName>>>>
        /\ validRet = <<FALSE, Asked[1].reason>>

\* C12 (amended): an IsValidToAnalyze call on a job with a non-empty partition
\* name in which the predicate answers no asks the predicate once, with
\* schema, logical table name and the list holding the partition name, fires
\* the failure hook exactly once if one is registered and no hook if none is,
\* issues no statement, borrows no session, does not fire the success hook,
\* and returns (false, the predicate's reason).
C12_InvalidFiresRegisteredFailureHookOnce ==
    [][ (IsValidToAnalyzeStep /\ job.StaticPartitionName # ""
            /\ Len(Asked') >= 1 /\ ~Asked'[1].ok) =>
          /\ FailureFired' = IF job.failureHook # Nil THEN 1 ELSE 0
          /\ SuccessFired' = 0
          /\ Issued' = <<>>
          /\ ~SessionAcquired'
          /\ sctx' = NoSession
          /\ Len(Asked') = 1
          /\ trace'[1] = Asked'[1]
          /\ Asked'[1].params = <<ctor.schema, ctor.globalTableName, <<ctor.partitionName>>>>
          /\ validRet' = <<FALSE, Asked'[1].reason>>
          /\ pc' = "idle" ]_vars

C12_Witness ==
    /\ lastOp = "IsValidToAnalyze"
    /\ job.StaticPartitionName = "p"
    /\ Len(Asked) = 1
    /\ ~Asked[1].ok
    /\ Asked[1].reason = "r2"
    /\ validRet = <<FALSE, "r2">>
    /\ FailureFired = 1
    /\ trace[2].hook = "h2"

\* C13: on a job whose partition name is empty, IsValidToAnalyze returns
\* (true, "") whatever the predicate would answer, and a call made on such a
\* job has asked the predicate nothing, fired no hook and returned (true, "").
C13_EmptyPartitionNameIsValid ==
    job.StaticPartitionName = "" =>
        /\ \A valid \in BOOLEAN, failReason \in Reasons \cup {""} :
              IsValidToAnalyzeBody(job, sctx, valid, failReason)
                 = [ events |-> <<>>, ret |-> <<TRUE, "">> ]
        /\ lastOp = "IsValidToAnalyze" =>
              /\ validRet = <<TRUE, "">>
              /\ Asked = <<>>
              /\ Fired = <<>>
              /\ trace = <<>>

C13_Witness ==
    /\ lastOp = "IsValidToAnalyze"
    /\ job.StaticPartitionName = ""
    /\ calls = 2
    /\ tally.validTrue = 2
    /\ job.failureHook # Nil
    /\ job.successHook # Nil
    /\ validRet = <<TRUE, "">>
    /\ trace = <<>>

\* --------------------------------------------------------- session, observed
CountEvents(what) == Len(SelectSeq(trace, LAMBDA e : e.ev = what))

\* C14: at every moment of an Analyze call at most one session has been
\* borrowed; the job holds it exactly from the borrow to the release; every
\* statement is issued after the borrow, before the release, with the session
\* held; a hook runs only as the last event of the call, with no session held
\* and after the release of any session that was borrowed; once the closure
\* has returned (whether it succeeded, the executor failed or the loop
\* stopped short) the session has been released, and none is held when
\* Analyze has returned or when no call is in progress.
C14_HookAfterSessionRelease ==
    /\ pc = "idle" => sctx = NoSession
    /\ lastOp = "Analyze" =>
          /\ CountEvents("get") <= 1
          /\ CountEvents("put") <= CountEvents("get")
          /\ sctx.held <=> (CountEvents("get") = 1 /\ CountEvents("put") = 0)
          /\ \A k \in 1..Len(trace) :
                trace[k].ev = "stmt" =>
                   /\ trace[k].held
                   /\ \E a \in 1..(k - 1) : trace[a].ev = "get"
                   /\ \A b \in 1..(k - 1) : trace[b].ev # "put"
          /\ \A k \in 1..Len(trace) :
                trace[k].ev = "hook" =>
                   /\ ~trace[k].held
                   /\ k = Len(trace)
                   /\ pc = "idle"
                   /\ (\E a \in 1..(k - 1) : trace[a].ev = "get")
                         => (\E b \in 1..(k - 1) : trace[b].ev = "put")
          /\ pc \in {"defer", "idle"} =>
                /\ ~sctx.held
                /\ CountEvents("put") = CountEvents("get")

C14_Witness ==
    /\ AnalyzeDone
    /\ Len(trace) = 5
    /\ trace[1].ev = "get"
    /\ trace[2].ev = "stmt" /\ trace[2].ok
    /\ trace[3].ev = "stmt" /\ ~trace[3].ok
    /\ trace[4].ev = "put"
    /\ trace[5].ev = "hook" /\ trace[5].kind = "failure"
    /\ Len(job.Indexes) = 3

\* ----------------------------------------------------- SQL generation, observed
\* A step that is one whole call of a SQL-generation function.
GenSQLStep ==
    /\ calls' = calls + 1
    /\ lastOp' \in {"GenSQLForAnalyzeStaticPartition", "GenSQLForAnalyzeStaticPartitionIndex"}

PartitionPair == [ sql |-> PartitionSQL, params |-> <<ctor.schema, ctor.globalTableName, ctor.partitionName>> ]

IndexPair(x) == [ sql |-> IndexSQL, params |-> <<ctor.schema, ctor.globalTableName, ctor.partitionName, x>> ]

\* The generators' results are the pairs of the identifiers the job was
\* constructed with, in whatever state the job's other fields are.
SQLGenerationIsData ==
    /\ GenSQLForAnalyzeStaticPartition(job) = PartitionPair
    /\ \A x \in IndexNames : GenSQLForAnalyzeStaticPartitionIndex(job, x) = IndexPair(x)
    /\ \A k \in 1..Len(Issued) :
          \/ [ sql |-> Issued[k].sql, params |-> Issued[k].params ] = PartitionPair
          \/ \E n \in 1..Len(job.Indexes) :
                [ sql |-> Issued[k].sql, params |-> Issued[k].params ] = IndexPair(job.Indexes[n])

\* C15: in every state the whole-partition generator returns the template
\* "analyze table %n.%n partition %n" with [schema, table, partition] and the
\* index generator returns, for index x, "analyze table %n.%n partition %n
\* index %n" with [schema, table, partition, x], whatever weight, indicators,
\* hooks, stats version, ids and index list the job has; every statement
\* issued is one of these pairs (for an index of the job's list); and a call
\* of a generator
\* hands that pair to its caller, issues no statement, fires no hook, borrows
\* no session and leaves every field of the job as it was.
C15_SQLGenerationReturnsDataPairs ==
    [][ /\ SQLGenerationIsData
        /\ SQLGenerationIsData'
        /\ GenSQLStep =>
              /\ job' = job
              /\ Issued' = <<>>
              /\ Fired' = <<>>
              /\ tally' = tally
              /\ sctx' = sctx
              /\ pc' = "idle"
              /\ Len(trace') = 1
              /\ trace'[1].ev = "sql"
              /\ \/ [ sql |-> trace'[1].sql, params |-> trace'[1].params ] = PartitionPair
                 \/ \E x \in IndexNames :
                       [ sql |-> trace'[1].sql, params |-> trace'[1].params ] = IndexPair(x) ]_vars

C15_Witness ==
    /\ lastOp = "GenSQLForAnalyzeStaticPartitionIndex"
    /\ trace = <<SQLReturned([ sql |-> "analyze table %n.%n partition %n index %n", params |-> <<"s", "t", "p", "i3">> ])>>
    /\ job.Indexes = <<"i2", "i1">>
    /\ tally.analyzeFailed = 1
    /\ job.failureHook # Nil

\* ------------------------------------------------------------ frame, observed
\* A step that belongs to an Analyze or an IsValidToAnalyze call: the call's
\* entry, or any step taken while Analyze is in progress.
AnalyzeOrIsValidStep ==
    \/ pc # "idle"
    \/ calls' = calls + 1 /\ lastOp' \in {"Analyze", "IsValidToAnalyze"}

\* The fields no operation of the job writes.
Identity(j) ==
    [ schema |-> j.TableSchema, globalTableName |-> j.GlobalTableName,
      partitionName |-> j.StaticPartitionName, indexes |-> j.Indexes,
      globalTableID |-> j.GlobalTableID, partitionID |-> j.StaticPartitionID,
      statsVer |-> j.TableStatsVer ]

\* C16: every step of an Analyze or IsValidToAnalyze call leaves every field
\* of the job as it was (identifiers, index list, stats version, indicators,
\* weight, hooks), so the job is the same after the call as before; GetWeight
\* and GetIndicators return the value last given to SetWeight / SetIndicators
\* (the constructor's before any); and a step that changes the job changes
\* exactly one of weight, indicators, success hook, failure hook, and nothing
\* else of the job or of a call's record.
C16_CallsLeaveJobUnchanged ==
    [][ /\ AnalyzeOrIsValidStep => job' = job /\ lastSet' = lastSet
        /\ GetWeight(job) = lastSet.Weight /\ GetWeight(job') = lastSet'.Weight
        /\ GetIndicators(job) = lastSet.Indicators
        /\ GetIndicators(job') = lastSet'.Indicators
        /\ Identity(job') = Identity(job)
        /\ job' # job =>
              /\ \/ job' = [job EXCEPT !.Weight = lastSet'.Weight]
                 \/ job' = [job EXCEPT !.Indicators = lastSet'.Indicators]
                 \/ job' = [job EXCEPT !.successHook = lastSet'.successHook]
                 \/ job' = [job EXCEPT !.failureHook = lastSet'.failureHook]
              /\ UNCHANGED <<ctor, pc, callVars, trace, lastOp, validRet, tally, calls>> ]_vars

C16_Witness ==
    /\ AnalyzeDone
    /\ tally.analyzeFailed = 1
    /\ calls = 2
    /\ tally.validFalse = 1
    /\ job.Weight = 1 /\ lastSet.Weight = 1
    /\ job.Indicators # ctor.indicators /\ lastSet.Indicators = job.Indicators
    /\ job.successHook = "h1" /\ job.failureHook = "h2"
    /\ job.Indexes = ctor.indexes /\ Len(job.Indexes) = 2

\* ----------------------------------------------------- registration, observed
\* The events of a call's record that are not hook invocations.
NotHooks(events) == SelectSeq(events, LAMBDA e : e.ev # "hook")

\* The job with no hook registered.
Unhooked(j) == [j EXCEPT !.successHook = Nil, !.failureHook = Nil]

\* C17: a hook that fires is the one most recently registered for its kind,
\* and it was registered before the call began (no step of a call registers
\* anything, and a registration invokes nothing and leaves the record of the
\* last call as it was).  With no hook registered for the selected outcome the
\* deferred step of Analyze fires nothing, and with or without one it leaves
\* the statements issued and the return value as they were and completes the
\* call; no earlier step of Analyze fires a hook.  An IsValidToAnalyze call
\* asks the predicate and returns exactly what it would with no hook
\* registered, and fires nothing when no failure hook is registered.
C17_OnlyLatestRegisteredHookFires ==
    [][ /\ AnalyzeOrIsValidStep =>
              \A k \in 1..Len(Fired') :
                 Fired'[k].hook = IF Fired'[k].kind = "success"
                                  THEN lastSet.successHook ELSE lastSet.failureHook
        /\ \A k \in 1..Len(Fired') : Fired'[k].hook \in HookIds
        /\ job.successHook = lastSet.successHook
        /\ job.failureHook = lastSet.failureHook
        /\ AnalyzeOrIsValidStep => lastSet' = lastSet
        /\ lastSet' # lastSet => trace' = trace /\ tally' = tally /\ ret' = ret /\ validRet' = validRet
        /\ (pc # "idle" /\ pc # "defer") => Fired' = <<>>
        /\ pc = "defer" =>
              /\ pc' = "idle"
              /\ ret' = ret
              /\ NotHooks(trace') = trace
              /\ (IF success THEN job.successHook ELSE job.failureHook) = Nil => trace' = trace
              /\ Len(Fired') <= 1
        /\ IsValidToAnalyzeStep =>
              /\ \E valid \in BOOLEAN, failReason \in Reasons \cup {""} :
                    /\ NotHooks(trace') = IsValidToAnalyzeBody(Unhooked(job), sctx, valid, failReason).events
                    /\ validRet' = IsValidToAnalyzeBody(Unhooked(job), sctx, valid, failReason).ret
              /\ job.failureHook = Nil => Fired' = <<>>
              /\ pc' = "idle" ]_vars

C17_Witness ==
    /\ AnalyzeDone
    /\ calls = 2
    /\ tally.analyzeFailed = 1
    /\ tally.validFalse = 1
    /\ tally.failureHook = 0
    /\ job.failureHook = Nil
    /\ job.successHook = "h2"
    /\ Len(Issued) = 2
    /\ ret = "nil"
    /\ Fired = <<>>

\* -------------------------------------------------------- notification counts
\* The Analyze call that is about to run its deferred function ended in
\* failure: it got no session, or a statement it issued failed.
EndedInFailure == ret = "err" \/ ~AllIssuedOK

\* C18: on a job with both hooks registered every call adds to the counts of
\* hook invocations exactly what its own outcome calls for, whatever was
\* notified before: an Analyze call that ended in failure adds one failure
\* invocation and no success invocation, one that ended in success adds one
\* success invocation and no failure invocation, an IsValidToAnalyze call
\* that returned false adds one failure invocation, one that returned true
\* adds none, and nothing else adds any; so a rejected validity check followed
\* by Analyze adds two invocations.
C18_HookCountsMatchOutcomes ==
    [][ (job.successHook # Nil /\ job.failureHook # Nil) =>
          /\ (lastOp = "Analyze" /\ pc = "defer") =>
                /\ tally'.failureHook = tally.failureHook + (IF EndedInFailure THEN 1 ELSE 0)
                /\ tally'.successHook = tally.successHook + (IF EndedInFailure THEN 0 ELSE 1)
          /\ IsValidToAnalyzeStep =>
                /\ tally'.failureHook = tally.failureHook + (IF validRet'[1] THEN 0 ELSE 1)
                /\ tally'.successHook = tally.successHook
                /\ validRet'[1] => Fired' = <<>>
          /\ (pc # "defer" /\ ~IsValidToAnalyzeStep) =>
                /\ tally'.failureHook = tally.failureHook
                /\ tally'.successHook = tally.successHook ]_vars

\* ------------------------------------------------- empty index list, observed
\* The job as it is, with an empty index list.
WithNoIndexes(j) == [j EXCEPT !.Indexes = <<>>]

\* What the index step and then the deferred function of Analyze do when the
\* index step is given the job with an empty list.
OnEmptyList(v, ok) ==
    LET r == analyzeStaticPartitionIndexes(WithNoIndexes(job), [held |-> TRUE, AnalyzeVersion |-> v], ok)
    IN  [ step |-> r, fired |-> DeferredHook(WithNoIndexes(job), r.success, NoSession) ]

\* No Analyze call took the empty-list guard: index type is selected only on
\* a non-empty list, and every closure that has returned issued a statement.
GuardNeverReached ==
    /\ getAnalyzeType(job) = analyzeStaticPartitionIndex => Len(job.Indexes) > 0
    /\ job.Indexes = ctor.indexes
    /\ (lastOp = "Analyze" /\ pc \in {"range", "closureReturn"}) => SessionAcquired
    /\ (lastOp = "Analyze" /\ SessionAcquired /\ pc \in {"closureReturn", "defer", "idle"})
          => Len(Issued) >= 1
    /\ pc = "range" => Len(job.Indexes) > 0

\* C19 (as stated): run on an empty index list, the index step issues no
\* statement, reads no element of the list and reports success, and the
\* deferred function of Analyze then invokes the success hook; and no Analyze
\* call reaches the guard.
C19_EmptyListGuardFiresSuccessHook ==
    /\ \A v \in SessionVersions, ok \in BOOLEAN :
          /\ OnEmptyList(v, ok).step.events = <<>>
          /\ OnEmptyList(v, ok).step.success
          /\ OnEmptyList(v, ok).step.pc = "closureReturn"
          /\ CountHooks(OnEmptyList(v, ok).fired, "success") = 1
          /\ CountHooks(OnEmptyList(v, ok).fired, "failure") = 0
    /\ GuardNeverReached

\* C19 (amended): run on an empty index list, the index step issues no
\* statement, reads no element of the list (neither the session's version nor
\* the loop position is touched) and reports success, and the deferred
\* function of Analyze then invokes the success hook if one is registered,
\* nothing if none is, and never the failure hook; and no Analyze call
\* reaches the guard, because index type is selected only on a non-empty list
\* and the list does not change.
C19_EmptyListGuardIsTrivialSuccess ==
    /\ \A v \in SessionVersions, ok \in BOOLEAN :
          /\ OnEmptyList(v, ok).step
                = [ success |-> TRUE, pc |-> "closureReturn", events |-> <<>>,
                    analyzeVersion |-> analyzeVersion, idx |-> idx ]
          /\ OnEmptyList(v, ok).fired
                = IF job.successHook # Nil
                  THEN <<CallHook("success", job.successHook, NoSession)>>
                  ELSE <<>>
    /\ GuardNeverReached

C19_Witness ==
    /\ AnalyzeDone
    /\ job.Indexes = <<>>
    /\ SessionAcquired
    /\ Len(Issued) = 1
    /\ Issued[1].sql = PartitionSQL
    /\ ~Issued[1].ok
    /\ job.successHook = "h1"
    /\ job.failureHook = "h2"
    /\ FailureFired = 1
    /\ OnEmptyList(1, FALSE).fired = <<CallHook("success", "h1", NoSession)>>

====
